---- MODULE Spec2Model ----
(***************************************************************************)
(* Model of the realtime voice session of memory-star-mvp:                 *)
(*   src/memory_star/voice.py  (VoiceConfig, the three voice handlers,     *)
(*                              create_voice_handler, the platform         *)
(*                              adapters, VoiceInterface)                  *)
(*   src/voice_demo.py         (VoiceMemoryStar.setup and run, test_voice, *)
(*                              main)                                      *)
(*                                                                         *)
(* Python str and bytes values are sequences of one-character strings, so  *)
(* that concatenation and lower-casing are computed.                       *)
(* A coroutine runs without interruption between two awaits; every await   *)
(* of the source is a possible suspension point and ends an atomic step.   *)
(***************************************************************************)
EXTENDS Integers, Sequences, FiniteSets, TLC

VARIABLES
    env,                  \* os.environ: VOICE_PROVIDER, OPENAI_API_KEY, GEMINI_API_KEY
    entry,                \* which selection code runs: "from_env"
                          \* (create_voice_handler(None), test_voice) or
                          \* "setup" (VoiceMemoryStar.setup)
    sel_pc,               \* position in handler selection
    config,               \* the VoiceConfig (provider, api_key, model)
    handler,              \* class of VoiceInterface.voice
    platform,             \* class of VoiceInterface.platform
    ws,                   \* OpenAIVoiceHandler.ws: NoSock or a socket id
    session,              \* GeminiVoiceHandler.session: "None" or "chat"
    sock,                 \* state of every websocket the process has opened
    outbox,               \* frames the client has sent on each socket
    inbox,                \* frames the peer has sent on each socket, not yet read
    peer_sent,            \* number of frames the peer has sent so far
    flow,                 \* per flow of control: the operation it runs, its
                          \* position in it, speak_turn's / send_audio's locals
                          \* and how its last operation ended; as history,
                          \* the frames its turn has read (arrived) and how
                          \* many unread frames were already queued when the
                          \* turn sent its audio (stale)
    conversation_history, \* VoiceInterface.conversation_history
    played,               \* audio buffers handed to play_audio that finished playing
    ops,                  \* number of operations begun
    exit_code,            \* << >> while the voice_demo process runs, then its
                          \* exit status as a one-element sequence
    args_text,            \* args.text of voice_demo's main: --text was given
    chat,                 \* continuous_chat: its position, the number of loop
                          \* iterations begun and its max_turns argument
    context,              \* a ConversationSession's messages, the argument n
                          \* of get_recent_context and what it returned
    demo                  \* MemoryStarDemo.run: its position, its session's
                          \* messages, turn_count and what it wrote

vars == << env, entry, sel_pc, config, handler, platform, ws, session, sock,
           outbox, inbox, peer_sent, flow, conversation_history, played, ops,
           exit_code, args_text, chat, context, demo >>

\* the state of the programs around the voice session
appVars == << args_text, chat, context, demo >>

selVars == << env, entry, sel_pc, config, handler, exit_code, appVars >>

sessVars == << platform, ws, session, sock, outbox, inbox, peer_sent, flow,
               conversation_history, played, ops >>

netVars == << ws, session, sock, outbox, inbox, peer_sent >>

\* None where a str is expected, and where a socket is expected
NoneVal == << "None" >>
NoSock == 0

\* ---------------------------------------------------------------- bounds
MaxSockets == 2
MaxFrames == 3
MaxOps == 3
MaxQueue == 2
MaxTurns == 2
MaxMsgs == 3
MaxN == 4
MaxInput == 2

\* the primary flow of control, and one flow outside it
Flows == {"primary", "outside"}
SockIds == 1 .. MaxSockets

\* ------------------------------------------------------- str helpers
UpperLetters == << "A", "E", "G", "I", "M", "N", "O", "P" >>
LowerLetters == << "a", "e", "g", "i", "m", "n", "o", "p" >>

\* str.lower() on one character
LowerChar(c) ==
    IF \E i \in 1 .. Len(UpperLetters) : UpperLetters[i] = c
    THEN LowerLetters[CHOOSE i \in 1 .. Len(UpperLetters) : UpperLetters[i] = c]
    ELSE c

\* str.lower()
Lower(s) == [i \in 1 .. Len(s) |-> LowerChar(s[i])]

\* Python truthiness of an Optional[str]
Truthy(v) == v # NoneVal /\ v # << >>

\* os.getenv(name, default)
GetEnv(v, default) == IF v = NoneVal THEN default ELSE v

StrOpenai == << "o", "p", "e", "n", "a", "i" >>
StrGemini == << "g", "e", "m", "i", "n", "i" >>
StrMock == << "m", "o", "c", "k" >>

\* values of VOICE_PROVIDER that are tried
ProviderStrings ==
    { NoneVal, << >>, StrOpenai, StrGemini, StrMock,
      << "O", "p", "e", "n", "A", "I" >>,
      << "G", "E", "M", "I", "N", "I" >>,
      << "a", "z", "u", "r", "e" >>,
      << "o", "p", "e", "n", "a", "i", " " >> }

\* values of OPENAI_API_KEY / GEMINI_API_KEY that are tried
KeyValues == { NoneVal, << >>, << "k" >> }

\* ------------------------------------------------ handler selection
\* VoiceConfig.from_env
from_env(e) ==
    LET provider_str == Lower(GetEnv(e.VOICE_PROVIDER, StrMock))
    IN  IF provider_str = StrOpenai
        THEN [provider |-> "OPENAI", api_key |-> e.OPENAI_API_KEY,
              model |-> "gpt-4o-realtime-preview"]
        ELSE IF provider_str = StrGemini
        THEN [provider |-> "GEMINI", api_key |-> e.GEMINI_API_KEY,
              model |-> "gemini-2.0-flash-exp"]
        ELSE [provider |-> "MOCK", api_key |-> NoneVal, model |-> "None"]

\* the config VoiceMemoryStar.setup builds once a key is known to be set
setup_config(e) ==
    LET provider == Lower(GetEnv(e.VOICE_PROVIDER, StrOpenai))
    IN  IF provider = StrOpenai /\ Truthy(e.OPENAI_API_KEY)
        THEN [provider |-> "OPENAI", api_key |-> e.OPENAI_API_KEY,
              model |-> "gpt-4o-realtime-preview"]
        ELSE IF provider = StrGemini /\ Truthy(e.GEMINI_API_KEY)
        THEN [provider |-> "GEMINI", api_key |-> e.GEMINI_API_KEY,
              model |-> "None"]
        ELSE [provider |-> "MOCK", api_key |-> NoneVal, model |-> "None"]

\* a mutant of create_voice_handler: the fallback branch raises instead
create_voice_handler_strict(c) ==
    IF c.provider = "OPENAI" THEN "OpenAIVoiceHandler"
    ELSE IF c.provider = "GEMINI" THEN "GeminiVoiceHandler"
    ELSE "ValueError"

\* create_voice_handler
create_voice_handler(c) ==
    IF c.provider = "OPENAI" THEN "OpenAIVoiceHandler"
    ELSE IF c.provider = "GEMINI" THEN "GeminiVoiceHandler"
    ELSE "MockVoiceHandler"

Envs == [VOICE_PROVIDER : ProviderStrings,
         OPENAI_API_KEY : KeyValues,
         GEMINI_API_KEY : KeyValues]

NoEnv == [VOICE_PROVIDER |-> NoneVal, OPENAI_API_KEY |-> NoneVal,
          GEMINI_API_KEY |-> NoneVal]

\* VoiceMemoryStar.setup exits when neither key is set
setup_exits(e) == ~Truthy(e.OPENAI_API_KEY) /\ ~Truthy(e.GEMINI_API_KEY)

NoConfig == [provider |-> "None", api_key |-> NoneVal, model |-> "None"]

SelectInit ==
    /\ env \in Envs
    /\ entry \in {"from_env", "setup"}
    /\ sel_pc = "start"
    /\ config = NoConfig
    /\ handler = "None"
    /\ exit_code = << >>

\* create_voice_handler(None): config = VoiceConfig.from_env()
FromEnv ==
    /\ sel_pc = "start" /\ entry = "from_env"
    /\ config' = from_env(env)
    /\ sel_pc' = "config"
    /\ UNCHANGED << env, entry, handler, exit_code, appVars >>

\* VoiceMemoryStar.setup up to the VoiceConfig it builds, or sys.exit(1)
Setup ==
    /\ sel_pc = "start" /\ entry = "setup"
    /\ IF setup_exits(env)
       THEN sel_pc' = "exit" /\ config' = config /\ exit_code' = << 1 >>
       ELSE /\ sel_pc' = "config" /\ config' = setup_config(env)
            /\ UNCHANGED exit_code
    /\ UNCHANGED << env, entry, handler, appVars >>

\* create_voice_handler(config), then VoiceInterface.__init__
CreateHandler ==
    /\ sel_pc = "config"
    /\ handler' = create_voice_handler(config)
    /\ sel_pc' = "handler"
    /\ UNCHANGED << env, entry, config, exit_code, appVars >>

\* ------------------------------------------------------ wire frames
\* the settings the session.update frame of connect() carries
SessionKeys ==
    {"modalities", "instructions", "voice", "input_audio_format",
     "output_audio_format", "input_audio_transcription",
     "turn_detection.type", "turn_detection.threshold",
     "turn_detection.prefix_padding_ms", "turn_detection.silence_duration_ms"}

ConfigMsg(t) == [type |-> "session.update", session |-> SessionKeys, by |-> t]
AppendMsg(t, a) == [type |-> "input_audio_buffer.append", audio |-> a, by |-> t]
\* a mutant of CommitMsg: no commit, a second response.create instead
CommitMsg_create(t) == [type |-> "response.create", by |-> t]

CommitMsg(t) == [type |-> "input_audio_buffer.commit", by |-> t]
CreateMsg(t) == [type |-> "response.create", by |-> t]

Deltas == { << "a" >>, << "b" >> }
Chunks == { << "b1" >>, << "b2" >> }
TextDelta(d) == [type |-> "response.text.delta", delta |-> d]
AudioDelta(b) == [type |-> "response.audio.delta", delta |-> b]
DoneFrame == [type |-> "response.done"]
ErrorFrame == [type |-> "error"]

\* the frames the peer may send
PeerFrames ==
    {TextDelta(d) : d \in Deltas} \cup {AudioDelta(b) : b \in Chunks}
        \cup {DoneFrame, ErrorFrame}

\* data.get("delta", "")
GetDelta(f) == IF "delta" \in DOMAIN f THEN f.delta ELSE << >>

\* what DesktopAdapter.record_audio may return
AudioInputs == { << "u" >> }

\* MockVoiceHandler.send_audio's fixed reply
MockReply == << "m" >>

\* what GeminiVoiceHandler's send_message may answer
GeminiReplies == { << "a" >>, << "b" >> }

\* the PCM audio the text-to-speech endpoint returns for a text
Tts(text) == << "tts" >> \o text

\* --------------------------------------------------- flows of control
\* a flow that runs nothing and has run nothing
IdleFlow ==
    [op |-> "none", pc |-> "idle", audio_input |-> << >>,
     transcript |-> << >>, response_audio |-> << >>, conn |-> NoSock,
     arrived |-> << >>, stale |-> 0, ended_by |-> "none",
     interrupted |-> FALSE, last |-> "none", outcome |-> "none",
     err |-> "none"]

\* the flow after its operation o raised e: the locals are gone
Raised(o, e) == [IdleFlow EXCEPT !.last = o, !.outcome = "raised", !.err = e]

\* the flow after start_conversation / stop_conversation returned
Returned(o) == [IdleFlow EXCEPT !.last = o, !.outcome = "ok"]

\* the flow after speak_turn returned f.transcript
ReturnedTurn(f) ==
    [IdleFlow EXCEPT !.last = "turn", !.outcome = "ok",
                     !.transcript = f.transcript, !.ended_by = f.ended_by,
                     !.interrupted = f.interrupted]

\* the flow at position p of operation o, with the locals of f
At(f, o, p) ==
    [f EXCEPT !.op = o, !.pc = p, !.last = "none", !.outcome = "none",
              !.err = "none"]

Set(t, f) == flow' = [flow EXCEPT ![t] = f]

\* flow t runs no operation of the VoiceInterface, which exists
Callable(t) == flow[t].pc = "idle" /\ sel_pc = "handler"

\* flow t may start an operation
CanBegin(t) == Callable(t) /\ ops < MaxOps

\* number of websockets.connect calls made so far
ConnectCalls == Cardinality({s \in SockIds : sock[s] # "unopened"})

\* the flows suspended inside recv() on socket s
Waiting(s) == {u \in Flows : flow[u].pc = "recv" /\ flow[u].conn = s}

\* positions of a turn suspended inside OpenAIVoiceHandler.send_audio
InSendAudio ==
    {"connecting", "sent_config", "sent_append", "sent_commit", "sent_create",
     "recv"}

\* a turn that is in progress, unfinalized
InProgress(f) == f.op = "turn" /\ f.pc \in InSendAudio

\* a mutant of key_missing: only an unset key is refused
key_missing_unset(k) == k = NoneVal

\* the test "if not self.config.api_key" of both connect() methods
key_missing(k) == ~Truthy(k)

\* OpenAIVoiceHandler.connect up to the await of websockets.connect,
\* called by flow t inside operation o
ConnectCall(t, o) ==
    IF key_missing(config.api_key)
    THEN Set(t, Raised(o, "ValueError")) /\ UNCHANGED sock
    ELSE /\ ConnectCalls < MaxSockets
         /\ sock' = [sock EXCEPT ![ConnectCalls + 1] = "connecting"]
         /\ Set(t, [At(flow[t], o, "connecting") EXCEPT !.conn = ConnectCalls + 1])

\* GeminiVoiceHandler.connect, which has no await, succeeds
GeminiConnectOk == ~key_missing(config.api_key)

\* await self.ws.send(frame) up to its suspension, then position p
SendFrame(t, frame, p) ==
    IF ws = NoSock
    THEN Set(t, Raised("turn", "AttributeError")) /\ UNCHANGED outbox
    ELSE IF sock[ws] # "open"
    THEN Set(t, Raised("turn", "ConnectionClosed")) /\ UNCHANGED outbox
    ELSE /\ outbox' = [outbox EXCEPT ![ws] = Append(@, frame)]
         /\ Set(t, [At(flow[t], "turn", p) EXCEPT
                      !.stale = IF frame.type = "input_audio_buffer.append"
                                THEN Len(inbox[ws]) ELSE @])

\* ------------------------------------------------ start_conversation
\* VoiceInterface.start_conversation: await self.voice.connect()
start_conversation(t) ==
    /\ Callable(t)
    /\ CASE handler = "OpenAIVoiceHandler" ->
              ConnectCall(t, "start") /\ UNCHANGED session
         [] handler = "GeminiVoiceHandler" ->
              /\ IF GeminiConnectOk
                 THEN Set(t, Returned("start")) /\ session' = "chat"
                 ELSE Set(t, Raised("start", "ValueError")) /\ UNCHANGED session
              /\ UNCHANGED sock
         [] OTHER -> Set(t, Returned("start")) /\ UNCHANGED << session, sock >>
    /\ UNCHANGED << selVars, platform, ws, outbox, inbox, peer_sent,
                    conversation_history, played >>

\* a caller of the VoiceInterface calls start_conversation
BeginStart(t) ==
    /\ CanBegin(t)
    /\ ops' = ops + 1
    /\ start_conversation(t)

\* a mutant of handshake: connect() sends no session.update
handshake_none(t) == << >>

\* the frames connect() sends once websockets.connect has returned
handshake(t) == << ConfigMsg(t) >>

\* websockets.connect completes: self.ws is assigned and the session.update
\* frame is sent, or the connection attempt fails
ConnectDone(t) ==
    /\ flow[t].pc = "connecting"
    /\ LET s == flow[t].conn
       IN  \/ /\ sock' = [sock EXCEPT ![s] = "open"]
              /\ ws' = s
              /\ outbox' = [outbox EXCEPT ![s] = @ \o handshake(t)]
              /\ Set(t, [flow[t] EXCEPT !.pc = "sent_config", !.conn = NoSock])
           \/ /\ sock' = [sock EXCEPT ![s] = "failed"]
              /\ Set(t, Raised(flow[t].op, "ConnectFailure"))
              /\ UNCHANGED << ws, outbox >>
    /\ UNCHANGED << selVars, platform, session, inbox, peer_sent,
                    conversation_history, played, ops >>

\* connect() has returned into start_conversation, which prints and returns
StartDone(t) ==
    /\ flow[t].pc = "sent_config" /\ flow[t].op = "start"
    /\ Set(t, Returned("start"))
    /\ UNCHANGED << selVars, platform, netVars, conversation_history, played,
                    ops >>

\* ------------------------------------------------- stop_conversation
\* the test "if self.ws:" of OpenAIVoiceHandler.disconnect
disconnect_guard(w) == w # NoSock

\* a mutant of disconnect_clears: self.ws is left as it was
disconnect_keeps(w) == w

\* the assignment "self.ws = None" of OpenAIVoiceHandler.disconnect
disconnect_clears(w) == NoSock

\* VoiceInterface.stop_conversation: await self.voice.disconnect(), up to
\* the await of self.ws.close(); every turn in progress is marked
stop_conversation(t) ==
    /\ Callable(t)
    /\ LET mark(u) == [flow[u] EXCEPT !.interrupted = @ \/ InProgress(flow[u])]
           after(f) == flow' = [u \in Flows |-> IF u = t THEN f ELSE mark(u)]
       IN  CASE handler = "OpenAIVoiceHandler" ->
                  /\ IF disconnect_guard(ws)
                     THEN /\ sock' = [sock EXCEPT ![ws] =
                                        IF @ = "open" THEN "closed_ok" ELSE @]
                          /\ after([At(IdleFlow, "stop", "closing")
                                       EXCEPT !.conn = ws])
                     ELSE after(Returned("stop")) /\ UNCHANGED sock
                  /\ UNCHANGED session
             [] handler = "GeminiVoiceHandler" ->
                  after(Returned("stop")) /\ session' = "None" /\ UNCHANGED sock
             [] OTHER -> after(Returned("stop")) /\ UNCHANGED << session, sock >>
    /\ UNCHANGED << selVars, platform, ws, outbox, inbox, peer_sent,
                    conversation_history, played >>

\* a caller of the VoiceInterface calls stop_conversation
BeginStop(t) ==
    /\ CanBegin(t)
    /\ ops' = ops + 1
    /\ stop_conversation(t)

\* self.ws.close() has completed: self.ws = None, print, return
CloseDone(t) ==
    /\ flow[t].pc = "closing"
    /\ ws' = disconnect_clears(ws)
    /\ Set(t, Returned("stop"))
    /\ UNCHANGED << selVars, platform, session, sock, outbox, inbox, peer_sent,
                    conversation_history, played, ops >>

\* --------------------------------------------------------- speak_turn
\* a mutant of SpeakResults: GeminiVoiceHandler.speak returns empty audio
SpeakResults_silent(text) ==
    CASE handler = "OpenAIVoiceHandler" ->
           {[ok |-> TRUE, audio |-> Tts(text), err |-> "none"],
            [ok |-> FALSE, audio |-> << >>, err |-> "APIError"]}
      [] OTHER -> {[ok |-> TRUE, audio |-> << >>, err |-> "none"]}

\* speak() of the active handler on a text: the audio, or the exception
SpeakResults(text) ==
    CASE handler = "OpenAIVoiceHandler" ->
           {[ok |-> TRUE, audio |-> Tts(text), err |-> "none"],
            [ok |-> FALSE, audio |-> << >>, err |-> "APIError"]}
      [] handler = "GeminiVoiceHandler" ->
           {[ok |-> FALSE, audio |-> << >>, err |-> "NotImplementedError"]}
      [] OTHER -> {[ok |-> TRUE, audio |-> << >>, err |-> "none"]}

\* record_audio(duration=10.0) of the platform adapter
RecordResults ==
    IF platform = "DesktopAdapter"
    THEN {[ok |-> TRUE, audio |-> a, err |-> "none"] : a \in AudioInputs}
            \cup {[ok |-> FALSE, audio |-> << >>, err |-> "PortAudioError"]}
    ELSE {[ok |-> FALSE, audio |-> << >>, err |-> "NotImplementedError"]}

\* play_audio of the platform adapter
PlayResults ==
    IF platform = "DesktopAdapter"
    THEN {[ok |-> TRUE, err |-> "none"], [ok |-> FALSE, err |-> "PortAudioError"]}
    ELSE {[ok |-> FALSE, err |-> "NotImplementedError"]}

\* VoiceInterface.speak_turn is entered: "if prompt_text:"
speak_turn(t, prompt) ==
    /\ Callable(t)
    /\ Set(t, At(IdleFlow, "turn", IF prompt THEN "prompt" ELSE "record"))
    /\ UNCHANGED << selVars, platform, netVars, conversation_history, played >>

\* a caller of the VoiceInterface calls speak_turn, with or without a
\* prompt_text
BeginTurn(t) ==
    /\ CanBegin(t)
    /\ ops' = ops + 1
    /\ \E prompt \in BOOLEAN : speak_turn(t, prompt)

\* await self.voice.speak(prompt_text)
Prompt(t) ==
    /\ flow[t].pc = "prompt"
    /\ \E r \in SpeakResults(<< "p" >>) :
          IF r.ok THEN Set(t, At(flow[t], "turn", "record"))
                  ELSE Set(t, Raised("turn", r.err))
    /\ UNCHANGED << selVars, platform, netVars, conversation_history, played,
                    ops >>

\* audio_input = await self.platform.record_audio(duration=10.0)
Record(t) ==
    /\ flow[t].pc = "record"
    /\ \E r \in RecordResults :
          IF r.ok
          THEN Set(t, [At(flow[t], "turn", "send") EXCEPT !.audio_input = r.audio])
          ELSE Set(t, Raised("turn", r.err))
    /\ UNCHANGED << selVars, platform, netVars, conversation_history, played,
                    ops >>

\* send_audio is entered.  Mock: returns its fixed reply.  Gemini: connects
\* when there is no session, sends the audio, returns response.text.
\* OpenAI: connects when self.ws is None, else sends the append frame.
SendAudio(t) ==
    /\ flow[t].pc = "send"
    /\ CASE handler = "OpenAIVoiceHandler" ->
              /\ IF ws = NoSock
                 THEN ConnectCall(t, "turn") /\ UNCHANGED outbox
                 ELSE SendFrame(t, AppendMsg(t, flow[t].audio_input),
                                "sent_append") /\ UNCHANGED sock
              /\ UNCHANGED session
         [] handler = "GeminiVoiceHandler" ->
              /\ IF session = "None" /\ ~GeminiConnectOk
                 THEN Set(t, Raised("turn", "ValueError")) /\ UNCHANGED session
                 ELSE /\ session' = "chat"
                      /\ \/ \E reply \in GeminiReplies :
                               Set(t, [At(flow[t], "turn", "speak")
                                         EXCEPT !.transcript = reply,
                                                !.ended_by = "done"])
                         \/ Set(t, Raised("turn", "GeminiError"))
              /\ UNCHANGED << sock, outbox >>
         [] OTHER ->
              /\ Set(t, [At(flow[t], "turn", "speak")
                           EXCEPT !.transcript = MockReply, !.ended_by = "done"])
              /\ UNCHANGED << session, sock, outbox >>
    /\ UNCHANGED << selVars, platform, ws, inbox, peer_sent,
                    conversation_history, played, ops >>

\* connect() has returned into send_audio: the append frame is sent
SendAppend(t) ==
    /\ flow[t].pc = "sent_config" /\ flow[t].op = "turn"
    /\ SendFrame(t, AppendMsg(t, flow[t].audio_input), "sent_append")
    /\ UNCHANGED << selVars, platform, ws, session, sock, inbox, peer_sent,
                    conversation_history, played, ops >>

\* await self.ws.send({"type": "input_audio_buffer.commit"})
SendCommit(t) ==
    /\ flow[t].pc = "sent_append"
    /\ SendFrame(t, CommitMsg(t), "sent_commit")
    /\ UNCHANGED << selVars, platform, ws, session, sock, inbox, peer_sent,
                    conversation_history, played, ops >>

\* await self.ws.send({"type": "response.create"})
SendCreate(t) ==
    /\ flow[t].pc = "sent_commit"
    /\ SendFrame(t, CreateMsg(t), "sent_create")
    /\ UNCHANGED << selVars, platform, ws, session, sock, inbox, peer_sent,
                    conversation_history, played, ops >>

\* transcript = ""; async for message in self.ws: the iterator is taken from
\* self.ws and recv() is called; recv() refuses a second concurrent reader
EnterLoop(t) ==
    /\ flow[t].pc = "sent_create"
    /\ IF ws = NoSock
       THEN Set(t, Raised("turn", "TypeError"))
       ELSE IF Waiting(ws) # {}
       THEN Set(t, Raised("turn", "RuntimeError"))
       ELSE Set(t, [At(flow[t], "turn", "recv")
                      EXCEPT !.conn = ws, !.transcript = << >>])
    /\ UNCHANGED << selVars, platform, netVars, conversation_history, played,
                    ops >>

\* a mutant of accumulate: the delta is put in front
accumulate_front(text, f) ==
    IF f.type = "response.text.delta" THEN GetDelta(f) \o text ELSE text

\* the body of send_audio's loop on the transcript: transcript += delta
accumulate(text, f) ==
    IF f.type = "response.text.delta" THEN text \o GetDelta(f) ELSE text

\* the next step of "async for message in self.ws": a queued frame is
\* handled; with none queued, a closed connection ends the iteration
\* (normal close) or raises (abnormal close); send_audio then returns
Recv(t) ==
    /\ flow[t].pc = "recv"
    /\ LET s == flow[t].conn
       IN  IF inbox[s] # << >>
           THEN LET f == Head(inbox[s])
                    g == [flow[t] EXCEPT
                            !.transcript = accumulate(@, f),
                            !.arrived = Append(@, f),
                            !.stale = IF @ > 0 THEN @ - 1 ELSE 0]
                IN  /\ inbox' = [inbox EXCEPT ![s] = Tail(@)]
                    /\ IF f.type = "response.done"
                       THEN Set(t, [g EXCEPT !.pc = "speak", !.conn = NoSock,
                                             !.ended_by = "done"])
                       ELSE Set(t, g)
           ELSE /\ sock[s] # "open"
                /\ IF sock[s] = "closed_ok"
                   THEN Set(t, [flow[t] EXCEPT !.pc = "speak", !.conn = NoSock,
                                               !.ended_by = "closed"])
                   ELSE Set(t, Raised("turn", "ConnectionClosed"))
                /\ UNCHANGED inbox
    /\ UNCHANGED << selVars, platform, ws, session, sock, outbox, peer_sent,
                    conversation_history, played, ops >>

\* response_audio = await self.voice.speak(response_text)
Speak(t) ==
    /\ flow[t].pc = "speak"
    /\ \E r \in SpeakResults(flow[t].transcript) :
          IF r.ok
          THEN Set(t, [flow[t] EXCEPT !.pc = "play", !.response_audio = r.audio])
          ELSE Set(t, Raised("turn", r.err))
    /\ UNCHANGED << selVars, platform, netVars, conversation_history, played,
                    ops >>

\* a mutant of Play: speak_turn goes on without playing the reply
Play_unplayed(t) ==
    /\ flow[t].pc = "play"
    /\ Set(t, [flow[t] EXCEPT !.pc = "append"])
    /\ UNCHANGED << selVars, platform, netVars, conversation_history, played,
                    ops >>

\* await self.platform.play_audio(response_audio)
Play(t) ==
    /\ flow[t].pc = "play"
    /\ \E r \in PlayResults :
          IF r.ok
          THEN /\ Set(t, [flow[t] EXCEPT !.pc = "append"])
               /\ played' = Append(played, flow[t].response_audio)
          ELSE Set(t, Raised("turn", r.err)) /\ UNCHANGED played
    /\ UNCHANGED << selVars, platform, netVars, conversation_history, ops >>

\* a mutant of turn_entry: the reply audio is left out of the entry
turn_entry_no_audio(f) ==
    [user_audio |-> f.audio_input, ai_text |-> f.transcript]

\* the dict speak_turn records for the turn whose locals are in f
turn_entry(f) ==
    [user_audio |-> f.audio_input, ai_text |-> f.transcript,
     ai_audio |-> f.response_audio]

\* a mutant of history_append: the history keeps the last turn only
history_replace(h, e) == << e >>

\* list.append on the conversation history
history_append(h, e) == Append(h, e)

\* self.conversation_history.append({...}); return response_text
AppendHistory(t) ==
    /\ flow[t].pc = "append"
    /\ conversation_history' =
          history_append(conversation_history, turn_entry(flow[t]))
    /\ Set(t, ReturnedTurn(flow[t]))
    /\ UNCHANGED << selVars, platform, netVars, played, ops >>

\* ---------------------------------------------------------- the peer
\* the remote service sends one of the given frames on an open connection
\* whose queue of unread frames has room (the library stops reading the
\* network at max_queue)
PeerSendFrom(s, frames) ==
    /\ sock[s] = "open"
    /\ peer_sent < MaxFrames
    /\ Len(inbox[s]) < MaxQueue
    /\ peer_sent' = peer_sent + 1
    /\ \E f \in frames : inbox' = [inbox EXCEPT ![s] = Append(@, f)]
    /\ UNCHANGED << selVars, platform, ws, session, sock, outbox, flow,
                    conversation_history, played, ops >>

\* the remote service sends a frame
PeerSend(s) == PeerSendFrom(s, PeerFrames)

\* the remote service closes the connection, normally or by a reset
PeerClose(s) ==
    /\ sock[s] = "open"
    /\ \E k \in {"closed_ok", "closed_err"} : sock' = [sock EXCEPT ![s] = k]
    /\ UNCHANGED << selVars, platform, ws, session, outbox, inbox, peer_sent,
                    flow, conversation_history, played, ops >>

\* ------------------------------------------------ ConversationSession
\* the roles and the contents of the messages of a session
Roles == { "user", "assistant" }
Contents == { << "a" >>, << "b" >> }

\* Message(role, content, timestamp, message_type)
Message(role, content) ==
    [role |-> role, content |-> content, timestamp |-> "now",
     message_type |-> "text"]

Messages == { Message(r, c) : r \in Roles, c \in Contents }

\* the message lists of at most MaxMsgs messages
MessageLists == UNION { [1 .. k -> Messages] : k \in 0 .. MaxMsgs }

\* add_message: self.messages.append(msg)
add_message(messages, role, content) ==
    Append(messages, Message(role, content))

\* Python's seq[start:] for any integer start
slice_from(seq, start) ==
    LET len == Len(seq)
        lo == IF start < 0
              THEN (IF len + start < 0 THEN 0 ELSE len + start)
              ELSE (IF start > len THEN len ELSE start)
    IN  SubSeq(seq, lo + 1, len)

\* get_recent_context(n): self.messages[-n:] when len(self.messages) > n,
\* else self.messages; then the role and the content of each
get_recent_context(messages, n) ==
    LET recent == IF Len(messages) > n THEN slice_from(messages, 0 - n)
                  ELSE messages
    IN  [k \in 1 .. Len(recent) |->
            [role |-> recent[k].role, content |-> recent[k].content]]

\* no session on which get_recent_context is called
NoContext == [messages |-> << >>, n |-> 0, called |-> FALSE, result |-> << >>]

\* ------------------------------------------------------ the text demo
\* the attributes that can be called on a ConversationSession
SessionAttrs ==
    { "add_message", "get_recent_context", "update_profile", "save", "load" }

\* the characters typed at the console
InputChars == { " ", "/", "a", "E" }

\* str.lower() on the characters that have a lower case
LowerOf ==
    ("E" :> "e") @@ ("X" :> "x") @@ ("I" :> "i") @@ ("T" :> "t")

lower(str) ==
    [k \in 1 .. Len(str) |->
        IF str[k] \in DOMAIN LowerOf THEN LowerOf[str[k]] ELSE str[k]]

RECURSIVE lstrip(_)
lstrip(str) ==
    IF str # << >> /\ Head(str) = " " THEN lstrip(Tail(str)) ELSE str

RECURSIVE rstrip(_)
rstrip(str) ==
    IF str # << >> /\ str[Len(str)] = " "
    THEN rstrip(SubSeq(str, 1, Len(str) - 1)) ELSE str

\* str.strip()
strip(str) == rstrip(lstrip(str))

\* str.startswith(prefix)
startswith(str, prefix) ==
    /\ Len(str) >= Len(prefix)
    /\ SubSeq(str, 1, Len(prefix)) = prefix

\* the commands of the demo
CmdExit == << "/", "e", "x", "i", "t" >>
CmdQuit == << "/", "q", "u", "i", "t" >>
CmdHelp == << "/", "h", "e", "l", "p" >>
CmdSave == << "/", "s", "a", "v", "e" >>
CmdMemoir == << "/", "m", "e", "m", "o", "i", "r" >>

\* console.input raised EOFError, or KeyboardInterrupt
EOFError == << "EOFError" >>
KeyboardInterrupt == << "KeyboardInterrupt" >>

\* the lines that may be typed
TypedLines ==
    UNION { [1 .. k -> InputChars] : k \in 0 .. MaxInput }
    \cup { CmdExit, CmdQuit, CmdHelp, CmdSave, CmdMemoir,
           << "/", "E", "X", "I", "T" >>,
           << " " >> \o CmdExit \o << " " >>,
           << "a", " ", "/", "e", "x", "i", "t" >> }

\* what console.input may do
ConsoleInputs == TypedLines \cup { EOFError, KeyboardInterrupt }

\* _get_input: the stripped line, "/exit" at end of input
get_input(line) == IF line = EOFError THEN CmdExit ELSE strip(line)

\* cmd = cmd.lower().strip() of _handle_command
command_of(cmd) == strip(lower(cmd))

\* _handle_command returns True
handle_command(cmd) == command_of(cmd) \in { CmdExit, CmdQuit }

\* what the question generator may answer
Responses == { << "q" >> }

\* while turn_count < max_turns
demo_max_turns == 20

\* turn_count % 5 == 0
save_every == 5

\* MemoryStarDemo.run has not been called
NoDemo ==
    [pc |-> "none", question_gen |-> FALSE, user_input |-> << >>,
     event |-> "none", messages |-> << >>, turn_count |-> 0,
     saved |-> NoneVal, memoir |-> FALSE, ret |-> NoneVal, err |-> "none"]

demoFrame ==
    << env, entry, sel_pc, config, handler, exit_code, args_text, chat,
       context, sessVars >>

\* run, up to the loop: return 1 without a question generator, else
\* start_session and the greeting
DemoRun ==
    /\ demo.pc = "run"
    /\ IF ~demo.question_gen
       THEN demo' = [demo EXCEPT !.pc = "returned", !.ret = << 1 >>]
       ELSE demo' = [demo EXCEPT !.pc = "loop", !.messages = << >>,
                                 !.turn_count = 0]
    /\ UNCHANGED demoFrame

\* the rest of an iteration after the user message is recorded
exchange(d, user_input) ==
    LET recorded == add_message(d.messages, "user", user_input)
    IN  IF "extract_key_info" \notin SessionAttrs
        THEN { [d EXCEPT !.pc = "raised", !.err = "AttributeError",
                         !.messages = recorded] }
        ELSE { LET answered == add_message(recorded, "assistant", r)
               IN  [d EXCEPT !.messages = answered,
                             !.turn_count = @ + 1,
                             !.saved = IF (d.turn_count + 1) % save_every = 0
                                       THEN answered ELSE @]
               : r \in Responses }

\* one iteration of the main loop
DemoTurn ==
    /\ demo.pc = "loop"
    /\ IF ~(demo.turn_count < demo_max_turns)
       THEN demo' = [demo EXCEPT !.pc = "end", !.event = "limit"]
       ELSE \E line \in ConsoleInputs :
              IF line = KeyboardInterrupt
              THEN demo' = [demo EXCEPT !.pc = "end", !.event = "interrupt"]
              ELSE LET user_input == get_input(line)
                       d == [demo EXCEPT !.user_input = user_input,
                                         !.event = "input"]
                   IN  CASE user_input = << >> -> demo' = d
                         [] startswith(user_input, << "/" >>) ->
                              IF handle_command(user_input)
                              THEN demo' = [d EXCEPT !.pc = "end"]
                              ELSE demo' =
                                     [d EXCEPT
                                        !.saved =
                                           IF command_of(user_input) = CmdSave
                                           THEN d.messages ELSE @,
                                        !.memoir =
                                           IF command_of(user_input) = CmdMemoir
                                           THEN TRUE ELSE @]
                         [] OTHER -> demo' \in exchange(d, user_input)
    /\ UNCHANGED demoFrame

\* _end_session saves the session; run returns 0
DemoEnd ==
    /\ demo.pc = "end"
    /\ demo' = [demo EXCEPT !.pc = "returned", !.ret = << 0 >>,
                            !.saved = demo.messages]
    /\ UNCHANGED demoFrame

\* ---------------------------------------------------- continuous_chat
\* continuous_chat has not been called
NoChat == [pc |-> "none", i |-> 0, max_turns |-> 0]

\* the words that end continuous_chat, two characters each, written z j
\* (zai jian) and e s (jie shu)
EndWords == { << "z", "j" >>, << "e", "s" >> }

\* Python's "word in text" on str
Contains(text, word) ==
    \E k \in 1 .. (Len(text) - Len(word) + 1) :
        SubSeq(text, k, k + Len(word) - 1) = word

\* one of the end words occurs in response
has_end_word(response) == \E w \in EndWords : Contains(response, w)

\* the frames the peer may send during continuous_chat
ChatFrames ==
    { TextDelta(<< "z" >>), TextDelta(<< "j" >>),
      TextDelta(<< "e", "s" >>), DoneFrame }

\* the variables continuous_chat's own statements leave alone
chatFrame ==
    << env, entry, sel_pc, config, handler, exit_code, args_text, context,
       demo, platform, netVars, conversation_history, played, ops >>

\* continuous_chat: await self.start_conversation()
ChatCallStart ==
    /\ chat.pc = "start" /\ flow["primary"].last = "none"
    /\ start_conversation("primary")
    /\ UNCHANGED ops

\* start_conversation has returned, or raised out of continuous_chat
ChatStartDone ==
    /\ chat.pc = "start"
    /\ flow["primary"].pc = "idle" /\ flow["primary"].last = "start"
    /\ chat' = [chat EXCEPT !.pc = IF flow["primary"].outcome = "ok"
                                   THEN "loop" ELSE "raised"]
    /\ UNCHANGED << chatFrame, flow >>

\* for i in range(max_turns): the next iteration, or the end of the loop
ChatIter ==
    /\ chat.pc = "loop"
    /\ IF chat.i < chat.max_turns
       THEN chat' = [chat EXCEPT !.pc = "call", !.i = @ + 1]
       ELSE chat' = [chat EXCEPT !.pc = "finally"]
    /\ UNCHANGED << chatFrame, flow >>

\* response = await self.speak_turn()
ChatCallTurn ==
    /\ chat.pc = "call" /\ flow["primary"].last # "turn"
    /\ speak_turn("primary", FALSE)
    /\ UNCHANGED ops

\* speak_turn has returned its response, which is printed and searched for
\* an end word, or has raised; the result is consumed
ChatTurnDone ==
    /\ chat.pc = "call"
    /\ flow["primary"].pc = "idle" /\ flow["primary"].last = "turn"
    /\ chat' = [chat EXCEPT !.pc =
                  IF flow["primary"].outcome = "raised" THEN "finally_raise"
                  ELSE IF has_end_word(flow["primary"].transcript)
                  THEN "finally"
                  ELSE "loop"]
    /\ flow' = [flow EXCEPT !["primary"] = IdleFlow]
    /\ UNCHANGED chatFrame

\* finally: await self.stop_conversation()
ChatCallStop ==
    /\ chat.pc \in {"finally", "finally_raise"}
    /\ flow["primary"].last # "stop"
    /\ stop_conversation("primary")
    /\ UNCHANGED ops

\* stop_conversation has returned: continuous_chat returns, or the
\* exception of the turn goes on to its caller
ChatStopDone ==
    /\ chat.pc \in {"finally", "finally_raise"}
    /\ flow["primary"].pc = "idle" /\ flow["primary"].last = "stop"
    /\ chat' = [chat EXCEPT !.pc = IF chat.pc = "finally"
                                   /\ flow["primary"].outcome = "ok"
                                   THEN "returned" ELSE "raised"]
    /\ UNCHANGED << chatFrame, flow >>

\* ------------------------------------------------ the specifications
\* the configurations handler selection can produce
Configs == {from_env(e) : e \in Envs} \cup {setup_config(e) : e \in Envs}

SessionInit ==
    /\ platform \in {"DesktopAdapter", "MobileAdapter"}
    /\ ws = NoSock
    /\ session = "None"
    /\ sock = [s \in SockIds |-> "unopened"]
    /\ outbox = [s \in SockIds |-> << >>]
    /\ inbox = [s \in SockIds |-> << >>]
    /\ peer_sent = 0
    /\ flow = [t \in Flows |-> IdleFlow]
    /\ conversation_history = << >>
    /\ played = << >>
    /\ ops = 0

\* no program around the voice session has been started
AppInit ==
    /\ args_text = FALSE
    /\ chat = NoChat
    /\ context = NoContext
    /\ demo = NoDemo

\* a VoiceInterface whose handler has been selected; nothing called yet
Init ==
    /\ env = NoEnv
    /\ entry = "from_env"
    /\ sel_pc = "handler"
    /\ config \in Configs
    /\ handler = create_voice_handler(config)
    /\ exit_code = << >>
    /\ SessionInit
    /\ AppInit

\* the steps of a speak_turn that is under way
TurnStep(t) ==
    \/ ConnectDone(t)
    \/ Prompt(t)
    \/ Record(t)
    \/ SendAudio(t)
    \/ SendAppend(t)
    \/ SendCommit(t)
    \/ SendCreate(t)
    \/ EnterLoop(t)
    \/ Recv(t)
    \/ Speak(t)
    \/ Play(t)
    \/ AppendHistory(t)

\* the steps of any operation that is under way
Step(t) == TurnStep(t) \/ StartDone(t) \/ CloseDone(t)

\* the primary flow calls start_conversation, speak_turn and
\* stop_conversation in any order; stop_conversation may also be called
\* from outside the primary flow
Next ==
    \/ BeginStart("primary")
    \/ BeginTurn("primary")
    \/ \E t \in Flows : BeginStop(t)
    \/ \E t \in Flows : Step(t)
    \/ \E s \in SockIds : PeerSend(s)
    \/ \E s \in SockIds : PeerClose(s)

Spec == Init /\ [][Next]_vars

\* the primary flow alone; the event loop resumes a coroutine whose awaited
\* I/O has completed, so a step of the flow that stays possible is taken
LiveNext ==
    \/ BeginStart("primary")
    \/ BeginTurn("primary")
    \/ BeginStop("primary")
    \/ Step("primary")
    \/ \E s \in SockIds : PeerSend(s)
    \/ \E s \in SockIds : PeerClose(s)

LiveSpec == Init /\ [][LiveNext]_vars /\ WF_vars(Step("primary"))

\* the primary flow alone, without the fairness assumption
SoloSpec == Init /\ [][LiveNext]_vars

\* speak_turn called from two flows on the same VoiceInterface, with a peer
\* that sends nothing
DualNext ==
    \/ \E t \in Flows : BeginTurn(t)
    \/ \E t \in Flows : TurnStep(t)
    \/ \E s \in SockIds : PeerClose(s)

DualSpec == Init /\ [][DualNext]_vars

\* handler selection alone, from every environment
SelectNext ==
    \/ FromEnv /\ UNCHANGED sessVars
    \/ Setup /\ UNCHANGED sessVars
    \/ CreateHandler /\ UNCHANGED sessVars

\* no handler selected yet, and no session
SelectStart == SelectInit /\ SessionInit /\ AppInit

SelectSpec == SelectStart /\ [][SelectNext]_vars

\* continuous_chat(max_turns) is called on a new VoiceInterface
ChatStart ==
    /\ env = NoEnv
    /\ entry = "from_env"
    /\ sel_pc = "handler"
    /\ config \in Configs
    /\ handler = create_voice_handler(config)
    /\ exit_code = << >>
    /\ SessionInit
    /\ args_text = FALSE
    /\ chat \in [pc : {"start"}, i : {0}, max_turns : 0 .. MaxTurns]
    /\ context = NoContext
    /\ demo = NoDemo

\* the steps of the operations continuous_chat awaits: speak_turn is called
\* without a prompt_text, and every turn follows a start_conversation that
\* has connected, so send_audio never connects by itself
ChatStep ==
    \/ ConnectDone("primary")
    \/ StartDone("primary")
    \/ Record("primary")
    \/ SendAudio("primary")
    \/ SendCommit("primary")
    \/ SendCreate("primary")
    \/ EnterLoop("primary")
    \/ Recv("primary")
    \/ Speak("primary")
    \/ Play("primary")
    \/ AppendHistory("primary")
    \/ CloseDone("primary")

\* the steps of the coroutine that runs continuous_chat
ChatFlow ==
    \/ ChatCallStart
    \/ ChatStartDone
    \/ ChatIter
    \/ ChatCallTurn
    \/ ChatTurnDone
    \/ ChatCallStop
    \/ ChatStopDone
    \/ ChatStep

ChatNext ==
    \/ ChatCallStart
    \/ ChatStartDone
    \/ ChatIter
    \/ ChatCallTurn
    \/ ChatTurnDone
    \/ ChatCallStop
    \/ ChatStopDone
    \/ ChatStep
    \/ \E s \in SockIds : PeerSendFrom(s, ChatFrames)
    \/ \E s \in SockIds : PeerClose(s)

ChatSpec == ChatStart /\ [][ChatNext]_vars

\* the event loop resumes continuous_chat whenever its awaited I/O has
\* completed
ChatLiveSpec == ChatStart /\ [][ChatNext]_vars /\ WF_vars(ChatFlow)

\* a session with any messages, and any n >= 0
ContextInit ==
    /\ env = NoEnv
    /\ entry = "from_env"
    /\ sel_pc = "start"
    /\ config = NoConfig
    /\ handler = "None"
    /\ exit_code = << >>
    /\ SessionInit
    /\ args_text = FALSE
    /\ chat = NoChat
    /\ demo = NoDemo
    /\ context \in [messages : MessageLists, n : 0 .. MaxN, called : {FALSE},
                     result : {<< >>}]

\* session.get_recent_context(n)
GetRecentContext ==
    /\ ~context.called
    /\ context' = [context EXCEPT
                      !.called = TRUE,
                      !.result = get_recent_context(context.messages, context.n)]
    /\ UNCHANGED << env, entry, sel_pc, config, handler, exit_code, args_text,
                    chat, demo, sessVars >>

ContextNext == GetRecentContext

ContextSpec == ContextInit /\ [][ContextNext]_vars

\* demo.run() is called, with or without OPENROUTER_API_KEY
DemoInit ==
    /\ env = NoEnv
    /\ entry = "from_env"
    /\ sel_pc = "start"
    /\ config = NoConfig
    /\ handler = "None"
    /\ exit_code = << >>
    /\ SessionInit
    /\ args_text = FALSE
    /\ chat = NoChat
    /\ context = NoContext
    /\ demo \in { [NoDemo EXCEPT !.pc = "run", !.question_gen = q] :
                   q \in BOOLEAN }

DemoNext == DemoRun \/ DemoTurn \/ DemoEnd

DemoSpec == DemoInit /\ [][DemoNext]_vars

\* ------------------------------------------- the voice_demo process
\* main() has not returned and no exception or sys.exit has left it
Running == exit_code = << >>

\* the coroutine that main() runs to completion
Main == "primary"

\* test_voice in mock mode: prints a hint and returns; main returns
TestMockReturn ==
    /\ Running /\ entry = "from_env" /\ sel_pc = "config"
    /\ config.provider = "MOCK"
    /\ sel_pc' = "exit"
    /\ exit_code' = << 0 >>
    /\ UNCHANGED << env, entry, config, handler, appVars, sessVars >>

\* create_voice_handler(config) in test_voice and in setup
CliCreateHandler ==
    /\ Running
    /\ ~(entry = "from_env" /\ config.provider = "MOCK")
    /\ CreateHandler
    /\ UNCHANGED sessVars

\* test_voice: await handler.connect()
TestConnect ==
    /\ Running /\ entry = "from_env" /\ ops = 0
    /\ BeginStart(Main)

\* test_voice: audio = await handler.speak(test_text)
TestSpeak ==
    /\ Running /\ entry = "from_env"
    /\ flow[Main].pc = "idle"
    /\ flow[Main].last = "start" /\ flow[Main].outcome = "ok"
    /\ \E r \in SpeakResults(<< "t" >>) :
          IF r.ok THEN Set(Main, Returned("speak"))
                  ELSE Set(Main, Raised("speak", r.err))
    /\ UNCHANGED << selVars, platform, netVars, conversation_history, played,
                    ops >>

\* test_voice: await handler.disconnect()
TestDisconnect ==
    /\ Running /\ entry = "from_env"
    /\ flow[Main].last = "speak" /\ flow[Main].outcome = "ok"
    /\ BeginStop(Main)

\* test_voice returns, after disconnect() or out of its "except Exception"
\* clause, which prints the failure; main returns
TestReturn ==
    /\ Running /\ entry = "from_env" /\ sel_pc = "handler"
    /\ flow[Main].pc = "idle"
    /\ flow[Main].outcome = "raised" \/ flow[Main].last = "stop"
    /\ exit_code' = << 0 >>
    /\ UNCHANGED << env, entry, sel_pc, config, handler, appVars, sessVars >>

\* run: await self.voice_interface.start_conversation()
RunStart ==
    /\ Running /\ entry = "setup" /\ ops = 0
    /\ BeginStart(Main)

\* start_conversation raised: run has no handler around the call, the
\* exception leaves asyncio.run and main, the interpreter exits with 1
RunStartRaised ==
    /\ Running /\ entry = "setup"
    /\ flow[Main].last = "start" /\ flow[Main].outcome = "raised"
    /\ exit_code' = << 1 >>
    /\ UNCHANGED << env, entry, sel_pc, config, handler, appVars, sessVars >>

\* run is at the test of its while loop
LoopReady ==
    /\ flow[Main].pc = "idle"
    /\ \/ flow[Main].last = "start" /\ flow[Main].outcome = "ok"
       \/ flow[Main].last = "turn"

\* run: response = await self.voice_interface.speak_turn(), an exception
\* of which is printed before the loop continues
RunTurn ==
    /\ Running /\ entry = "setup" /\ LoopReady
    /\ BeginTurn(Main)
    /\ flow'[Main].pc = "record"

\* run leaves its loop (self.running cleared, a closing word, max_turns):
\* finally: await self.voice_interface.stop_conversation()
RunStop ==
    /\ Running /\ entry = "setup" /\ LoopReady
    /\ BeginStop(Main)

\* run returns after stop_conversation; main returns
RunReturn ==
    /\ Running /\ entry = "setup"
    /\ flow[Main].pc = "idle" /\ flow[Main].last = "stop"
    /\ exit_code' = << 0 >>
    /\ UNCHANGED << env, entry, sel_pc, config, handler, appVars, sessVars >>

\* main() of voice_demo.py with --test (entry "from_env") or without
\* (entry "setup"), from every environment; --text is parsed into args.text,
\* which main never reads
CliNext ==
    \/ FromEnv /\ UNCHANGED sessVars
    \/ Setup /\ UNCHANGED sessVars
    \/ TestMockReturn
    \/ CliCreateHandler
    \/ TestConnect
    \/ TestSpeak
    \/ TestDisconnect
    \/ TestReturn
    \/ RunStart
    \/ RunStartRaised
    \/ RunTurn
    \/ RunStop
    \/ RunReturn
    \/ Running /\ Step(Main)
    \/ \E s \in SockIds : Running /\ PeerSend(s)
    \/ \E s \in SockIds : Running /\ PeerClose(s)

\* the process has just been started; setup passes a DesktopAdapter
CliStart ==
    /\ SelectInit
    /\ SessionInit
    /\ platform = "DesktopAdapter"
    /\ args_text \in BOOLEAN
    /\ chat = NoChat
    /\ context = NoContext
    /\ demo = NoDemo

CliSpec == CliStart /\ [][CliNext]_vars

\* ------------------------------------------------------------ claims
RECURSIVE ConcatText(_)
\* the deltas of the transcript-delta frames of a frame sequence, joined in
\* the order of the sequence
ConcatText(frames) ==
    IF frames = << >> THEN << >>
    ELSE IF Head(frames).type = "response.text.delta"
         THEN GetDelta(Head(frames)) \o ConcatText(Tail(frames))
         ELSE ConcatText(Tail(frames))

RECURSIVE ConcatAudio(_)
\* the audio chunks of a frame sequence, joined in the order of the sequence
ConcatAudio(frames) ==
    IF frames = << >> THEN << >>
    ELSE IF Head(frames).type = "response.audio.delta"
         THEN GetDelta(Head(frames)) \o ConcatAudio(Tail(frames))
         ELSE ConcatAudio(Tail(frames))

\* send_audio of flow t has returned its transcript into speak_turn
SendAudioReturned(t) ==
    flow[t].op = "turn" /\ flow[t].pc \in {"speak", "play", "append"}

\* C1: when the receive loop of an OpenAI turn is ended by response.done,
\* the text send_audio returns is the concatenation, in arrival order, of the
\* deltas of every response.text.delta frame read during that turn.
C1_TranscriptIsConcatenation ==
    \A t \in Flows :
        (handler = "OpenAIVoiceHandler" /\ SendAudioReturned(t)
            /\ flow[t].ended_by = "done")
        => flow[t].transcript = ConcatText(flow[t].arrived)

\* C1 witness: a turn ended by response.done after two different deltas
C1_Witness ==
    \E t \in Flows :
        /\ handler = "OpenAIVoiceHandler" /\ SendAudioReturned(t)
        /\ flow[t].ended_by = "done"
        /\ flow[t].arrived =
              << TextDelta(<< "a" >>), TextDelta(<< "b" >>), DoneFrame >>
        /\ flow[t].transcript = << "a", "b" >>

\* a turn whose audio has been committed and whose send_audio has not returned
Committed(t) ==
    flow[t].op = "turn" /\ flow[t].pc \in {"sent_commit", "sent_create", "recv"}

\* C2: once the commit frame of a turn has been sent, send_audio eventually
\* returns or raises, whatever the peer does, silence included.
C2_CommittedTurnEnds ==
    \A t \in Flows : Committed(t) ~> ~Committed(t)

\* the step hands a transport error of flow t's turn to the caller
TransportErrorSurfaces(t) ==
    /\ flow[t].op = "turn"
    /\ flow'[t].outcome = "raised"
    /\ flow'[t].err \in {"ConnectionClosed", "ConnectFailure"}

\* C3: a transport error met during a turn is answered by one reconnect, so
\* it reaches the caller of speak_turn only as the failure of a connection
\* attempt made by that turn.
C3_ReconnectBeforeSurfacing ==
    [][\A t \in Flows :
          TransportErrorSurfaces(t) => flow[t].pc = "connecting"]_vars

\* the step in which stop_conversation of flow t returns or raises
StopEnds(t) == flow'[t].last = "stop" /\ flow'[t] # flow[t]

\* C4: every stop_conversation call, a repeated one included, returns
\* without an error and leaves the handler without a connection handle
\* (ws is None, session is None).
C4_StopIdempotent ==
    [][\A t \in Flows :
          StopEnds(t) => /\ flow'[t].outcome = "ok"
                           /\ ws' = NoSock
                           /\ session' = "None"]_vars

\* C4 witness: start_conversation opened a connection and stop_conversation
\* has then returned twice, the second call finding no handle
C4_Witness ==
    /\ handler = "OpenAIVoiceHandler"
    /\ ops = 3
    /\ sock[1] = "closed_ok"
    /\ ws = NoSock
    /\ \A t \in Flows : flow[t].last = "stop" /\ flow[t].outcome = "ok"

\* C5: two turns of one VoiceInterface are never inside send_audio at the
\* same time, so their frames are not interleaved on the connection.
C5_NoDualTurns ==
    \A t, u \in Flows :
        t # u => ~(InProgress(flow[t]) /\ InProgress(flow[u]))

\* the reply of flow t's turn has been delivered: send_audio has returned
\* it for synthesis, playback and history, or speak_turn has returned it
Delivered(t) ==
    \/ SendAudioReturned(t)
    \/ flow[t].last = "turn" /\ flow[t].outcome = "ok"

\* C6: a turn that was inside send_audio when stop_conversation was invoked
\* is discarded: its reply is never delivered.
C6_StoppedTurnDiscarded ==
    \A t \in Flows : flow[t].interrupted => ~Delivered(t)

\* C7: no turn uses the connection handle after disconnect has released it:
\* a send or an iteration on self.ws = None would raise AttributeError or
\* TypeError.
C7_NoUseAfterRelease ==
    \A t \in Flows :
        ~(/\ flow[t].last = "turn"
          /\ flow[t].err \in {"AttributeError", "TypeError"})

\* strings that VoiceConfig.from_env is claimed to send to the stub
NotListed(v) == v \notin {StrOpenai, StrGemini}

\* the strings whose lower-cased form is not a supported provider
NotSupported(v) == v = NoneVal \/ Lower(v) \notin {StrOpenai, StrGemini}

\* C8 as claimed: every VOICE_PROVIDER value other than 'openai' and
\* 'gemini' selects the MockVoiceHandler.
C8_UnlistedGivesStub ==
    (sel_pc = "handler" /\ entry = "from_env" /\ NotListed(env.VOICE_PROVIDER))
        => handler = "MockVoiceHandler"

\* C8 amended: every VOICE_PROVIDER value that is unset or whose lower-cased
\* form is neither 'openai' nor 'gemini' selects the MockVoiceHandler, and
\* selection through VoiceConfig.from_env never fails.
C8_UnsupportedGivesStub ==
    /\ (sel_pc = "handler" /\ entry = "from_env"
            /\ NotSupported(env.VOICE_PROVIDER))
        => handler = "MockVoiceHandler"
    /\ entry = "from_env" => sel_pc # "exit"
    /\ sel_pc = "handler" =>
          handler \in {"OpenAIVoiceHandler", "GeminiVoiceHandler",
                       "MockVoiceHandler"}

\* C8 witness: an arbitrary provider string has been turned into the stub
C8_Witness ==
    /\ sel_pc = "handler" /\ entry = "from_env"
    /\ env.VOICE_PROVIDER = << "a", "z", "u", "r", "e" >>
    /\ handler = "MockVoiceHandler"

\* C9: with the stub handler and the adapter VoiceInterface picks itself,
\* record_audio yields an empty buffer and speak_turn does not fail.
C9_StubTurnNeedsNoDevice ==
    (handler = "MockVoiceHandler" /\ platform = "DesktopAdapter") =>
        \A t \in Flows :
            /\ flow[t].pc \in {"send", "speak", "play", "append"}
                  => flow[t].audio_input = << >>
            /\ ~(flow[t].last = "turn" /\ flow[t].outcome = "raised")

\* the step appends to the history the turn of flow t, whose receive loop
\* read the chunks b1 and b2 and was ended by the peer closing
ClosedTurnRecorded(t) ==
    /\ flow[t].pc = "append"
    /\ flow[t].ended_by = "closed"
    /\ ConcatAudio(flow[t].arrived) = << "b1", "b2" >>
    /\ Len(conversation_history') = Len(conversation_history) + 1

\* C10: the turn recorded after the peer sent b1, b2 and closed without
\* response.done has b1+b2 as its reply audio and carries timed_out = true.
C10_ClosedTurnFlagged ==
    [][\A t \in Flows :
          ClosedTurnRecorded(t) =>
              LET turn == conversation_history'[Len(conversation_history')]
              IN  /\ turn.ai_audio = << "b1", "b2" >>
                  /\ "timed_out" \in DOMAIN turn
                  /\ turn.timed_out = TRUE]_vars

\* the connection attempt on socket s succeeded
Established(s) == sock[s] \in {"open", "closed_ok", "closed_err"}

\* number of frames of type ty in a frame sequence
CountType(frames, ty) ==
    Cardinality({i \in 1 .. Len(frames) : frames[i].type = ty})

\* C11: on every connection that was established exactly one session.update
\* frame has been sent, it carries the voice, the turn-detection threshold
\* and the audio formats, and it is the first frame sent on it, so it
\* precedes every input_audio_buffer.append frame; nothing is sent on a
\* socket whose connection attempt has not succeeded.
C11_OneHandshakeFirst ==
    \A s \in SockIds :
        IF Established(s)
        THEN /\ CountType(outbox[s], "session.update") = 1
             /\ Head(outbox[s]).type = "session.update"
             /\ {"voice", "turn_detection.threshold", "input_audio_format",
                 "output_audio_format"} \subseteq Head(outbox[s]).session
        ELSE outbox[s] = << >>

\* C11 witness: start_conversation was called twice and a turn then sent its
\* audio: the first connection carries its handshake alone, the second its
\* handshake followed by the append frame
C11_Witness ==
    /\ outbox[1] = << ConfigMsg("primary") >>
    /\ Len(outbox[2]) >= 2
    /\ outbox[2][1] = ConfigMsg("primary")
    /\ outbox[2][2].type = "input_audio_buffer.append"

\* the handler has no completed handshake: never connected, or disconnected
NotConnected ==
    \/ handler = "OpenAIVoiceHandler" /\ ws = NoSock
    \/ handler = "GeminiVoiceHandler" /\ session = "None"

\* the step in which flow t enters send_audio
SendAudioEntered(t) == flow[t].pc = "send" /\ flow'[t] # flow[t]

\* C12: send_audio entered on a handler without a completed handshake
\* raises at once: it opens no connection, creates no provider session and
\* sends nothing.
C12_SendAudioFailsFast ==
    [][\A t \in Flows :
          (SendAudioEntered(t) /\ NotConnected) =>
              /\ flow'[t].outcome = "raised"
              /\ sock' = sock
              /\ session' = session
              /\ outbox' = outbox]_vars

\* the step in which the receive loop of flow t's turn reads an error frame
ErrorFrameRead(t) ==
    /\ flow[t].pc = "recv"
    /\ inbox[flow[t].conn] # << >>
    /\ Head(inbox[flow[t].conn]).type = "error"
    /\ flow'[t] # flow[t]

\* C13: an error frame read during a turn aborts the turn: speak_turn
\* raises to its caller, the text accumulated so far is dropped, and the
\* connection is left as it was.
C13_ErrorFrameAbortsTurn ==
    [][\A t \in Flows :
          ErrorFrameRead(t) =>
              /\ flow'[t].last = "turn"
              /\ flow'[t].outcome = "raised"
              /\ flow'[t].transcript = << >>
              /\ sock' = sock]_vars

\* the step in which the receive loop of flow t's turn reads a frame that
\* was queued before the turn sent its audio, on the one connection of a
\* handler whose history holds a completed turn: the frame followed the
\* response.done that finalized the earlier turn
StrayRead(t) ==
    /\ flow[t].pc = "recv"
    /\ flow[t].stale > 0
    /\ inbox[flow[t].conn] # << >>
    /\ flow'[t] # flow[t]
    /\ conversation_history # << >>
    /\ ConnectCalls = 1

\* C14: a frame that arrived for a turn already finalized by response.done
\* is discarded by the next turn: it neither changes the reply text of that
\* turn nor ends its receive loop.
C14_StrayFrameDiscarded ==
    [][\A t \in Flows :
          StrayRead(t) => /\ flow'[t].transcript = flow[t].transcript
                          /\ flow'[t].pc = "recv"]_vars

\* the handler talks to a remote provider and its api_key is None or empty
RemoteWithoutKey ==
    /\ handler \in {"OpenAIVoiceHandler", "GeminiVoiceHandler"}
    /\ ~Truthy(config.api_key)

\* C15: on a remote-provider handler without an api_key every connect(),
\* called by start_conversation or by send_audio, raises ValueError before a
\* socket is opened or a provider session is created, and the handler keeps
\* ws = None and session = None.
C15_MissingKeyNoConnection ==
    RemoteWithoutKey =>
        /\ ws = NoSock
        /\ session = "None"
        /\ \A s \in SockIds : sock[s] = "unopened" /\ outbox[s] = << >>
        /\ \A t \in Flows :
              /\ flow[t].pc \notin InSendAudio \cup {"speak", "play", "append"}
              /\ flow[t].last = "start" =>
                    flow[t].outcome = "raised" /\ flow[t].err = "ValueError"

\* C15 witness: start_conversation has raised ValueError on an OpenAI handler
\* whose key is the empty string
C15_Witness ==
    /\ handler = "OpenAIVoiceHandler"
    /\ config.api_key = << >>
    /\ flow["primary"].last = "start"
    /\ flow["primary"].outcome = "raised"
    /\ flow["primary"].err = "ValueError"
    /\ ws = NoSock

TurnFailsInSendAudio(t) ==
    /\ flow[t].op = "turn"
    /\ flow[t].pc \in InSendAudio \cup {"send"}
    /\ flow'[t].outcome = "raised"

\* C17: a speak_turn that fails inside send_audio leaves the session ready
\* for the next speak_turn: the handler's handle is None, so that the next
\* turn connects, or it refers to an open connection.
C17_FailedTurnLeavesReady ==
    [][\A t \in Flows :
          (handler = "OpenAIVoiceHandler" /\ TurnFailsInSendAudio(t)) =>
              (ws' = NoSock \/ sock'[ws'] = "open")]_vars

\* the one connection the handler ever had has been closed and its handle
\* released: stop_conversation has returned, and start_conversation has not
\* been called since
Closed == ws = NoSock /\ ConnectCalls = 1 /\ Established(1) /\ sock[1] # "open"

\* the step opens a connection
ConnectionOpened == ConnectCalls' > ConnectCalls

\* C19: once stop_conversation has returned, a connection is opened again
\* only by a start_conversation call.
C19_ClosedStaysClosed ==
    [][(Closed /\ ConnectionOpened) =>
          \E t \in Flows : /\ flow[t].pc = "idle"
                           /\ flow'[t].op = "start"
                           /\ flow'[t].pc = "connecting"]_vars

\* C20: every socket that is open is the one the handler refers to.
C20_OneLiveConnection ==
    \A s \in SockIds : sock[s] = "open" => ws = s

\* the process met a fatal error: setup found no credential,
\* start_conversation / connect failed, or a step of the smoke test raised
FatalError ==
    \/ entry = "setup" /\ setup_exits(env)
    \/ flow[Main].last = "start" /\ flow[Main].outcome = "raised"
    \/ entry = "from_env" /\ flow[Main].outcome = "raised"

\* C18: when the voice_demo process has ended, its exit status is 0 if and
\* only if it met no fatal error.
C18_ExitCodeTellsOutcome ==
    ~Running => (exit_code = << 0 >> <=> ~FatalError)

\* sequence p is a prefix of sequence q
IsPrefix(p, q) == Len(p) <= Len(q) /\ SubSeq(q, 1, Len(p)) = p

\* C21: every step leaves conversation_history as it was or adds one entry
\* at its end, so each earlier value of the history is a prefix of every
\* later one: no entry is removed, reordered or rewritten.
C21_HistoryAppendOnly ==
    [][/\ IsPrefix(conversation_history, conversation_history')
       /\ Len(conversation_history') <= Len(conversation_history) + 1]_vars

\* C21 witness: two turns have completed and the history holds both entries,
\* the first one untouched by the second append
C21_Witness ==
    /\ Len(conversation_history) = 2
    /\ conversation_history[1].ai_text # conversation_history[2].ai_text

\* C22: when --text was given, the handler the process creates is the
\* MockVoiceHandler and the process opens no socket and creates no provider
\* session, whatever the environment holds.
C22_TextFlagForcesStub ==
    args_text =>
        /\ sel_pc = "handler" => handler = "MockVoiceHandler"
        /\ \A s \in SockIds : sock[s] = "unopened"
        /\ session = "None"

\* the step in which flow t's speak_turn returns its reply
TurnReturns(t) ==
    /\ flow[t].op = "turn"
    /\ flow'[t].last = "turn" /\ flow'[t].outcome = "ok"

\* the step takes flow t's turn to position p from another position
Reaches(t, p) ==
    flow[t].op = "turn" /\ flow'[t].op = "turn"
        /\ flow'[t].pc = p /\ flow[t].pc # p

\* C23: within a speak_turn the order is record, send_audio, speak,
\* play_audio, append, return: the turn is appended to the history only in
\* the step in which speak_turn returns, that step starts after play_audio
\* has completed on the reply audio of this turn, play_audio starts only with
\* the audio speak() returned for the reply of send_audio, and send_audio is
\* entered only with recorded audio.
C23_TurnOrder ==
    [][\A t \in Flows :
          /\ TurnReturns(t) =>
                /\ flow[t].pc = "append"
                /\ conversation_history' =
                      Append(conversation_history,
                             [user_audio |-> flow[t].audio_input,
                              ai_text |-> flow[t].transcript,
                              ai_audio |-> flow[t].response_audio])
                /\ played' = played
          /\ Reaches(t, "append") =>
                /\ flow[t].pc = "play"
                /\ played' = Append(played, flow[t].response_audio)
                /\ conversation_history' = conversation_history
          /\ Reaches(t, "play") =>
                /\ flow[t].pc = "speak"
                /\ \E r \in SpeakResults(flow[t].transcript) :
                      r.ok /\ flow'[t].response_audio = r.audio
          /\ Reaches(t, "speak") => flow[t].pc \in {"send", "recv"}
          /\ (\E p \in InSendAudio : Reaches(t, p)) =>
                flow[t].pc \in InSendAudio \cup {"send"}
          /\ Reaches(t, "send") => flow[t].pc = "record"
          /\ (flow[t].op # "turn" /\ flow'[t].op = "turn") =>
                flow'[t].pc \in {"prompt", "record"}]_vars

\* C23 witness: a turn on the OpenAI handler has returned; its synthesized
\* reply audio was played and is the audio of its history entry
C23_Witness ==
    /\ handler = "OpenAIVoiceHandler"
    /\ flow["primary"].last = "turn" /\ flow["primary"].outcome = "ok"
    /\ Len(played) = 1 /\ Len(conversation_history) = 1
    /\ played[1] = conversation_history[1].ai_audio
    /\ played[1] = Tts(conversation_history[1].ai_text)
    /\ conversation_history[1].ai_text # << >>

\* the type of the i-th frame sent on a connection, i >= 2, when every turn
\* sends append, commit, response.create in this order, each once
TurnFrameType(i) ==
    LET k == (i - 2) % 3
    IN  IF k = 0 THEN "input_audio_buffer.append"
        ELSE IF k = 1 THEN "input_audio_buffer.commit"
        ELSE "response.create"

\* positions of a turn before its receive loop
BeforeLoop ==
    {"prompt", "record", "send", "connecting", "sent_config", "sent_append",
     "sent_commit", "sent_create"}

\* C24: after the handshake, the frames sent on a connection are the
\* triples append, commit, response.create of the successive turns, in this
\* order and each once; a turn has read no frame before its receive loop;
\* and when it is in its receive loop the last three frames sent are its own
\* append, holding the whole recorded audio, its commit and its
\* response.create.
C24_FrameOrder ==
    /\ \A s \in SockIds :
          \A i \in 2 .. Len(outbox[s]) : outbox[s][i].type = TurnFrameType(i)
    /\ \A t \in Flows :
          /\ (flow[t].op = "turn" /\ flow[t].pc \in BeforeLoop) =>
                flow[t].arrived = << >>
          /\ flow[t].pc = "recv" =>
                LET o == outbox[flow[t].conn]
                    n == Len(o)
                IN  /\ n >= 4
                    /\ o[n - 2].type = "input_audio_buffer.append"
                    /\ o[n - 2].audio = flow[t].audio_input
                    /\ o[n - 1].type = "input_audio_buffer.commit"
                    /\ o[n].type = "response.create"
                    /\ \A i \in {n - 2, n - 1, n} : o[i].by = t

\* C24 witness: the second turn on a connection is in its receive loop after
\* the seven frames handshake, triple, triple
C24_Witness ==
    /\ flow["primary"].pc = "recv"
    /\ Len(outbox[flow["primary"].conn]) = 7
    /\ flow["primary"].arrived = << >>

\* the step in which flow t's speak_turn raises
TurnFails(t) == flow[t].op = "turn" /\ flow'[t].outcome = "raised"

\* C25: the history changes only in the step in which a speak_turn returns
\* normally, which adds exactly one entry with the keys user_audio, ai_text
\* and ai_audio of that turn, after its reply audio was played; a step in
\* which a speak_turn raises leaves the history unchanged.  Hence the length
\* of the history is the number of speak_turn calls that returned normally.
C25_HistoryAllOrNothing ==
    [][/\ \A t \in Flows :
             /\ TurnReturns(t) =>
                   /\ Len(conversation_history') = Len(conversation_history) + 1
                   /\ conversation_history'[Len(conversation_history')] =
                         [user_audio |-> flow[t].audio_input,
                          ai_text |-> flow[t].transcript,
                          ai_audio |-> flow[t].response_audio]
                   /\ played # << >>
                   /\ played[Len(played)] = flow[t].response_audio
             /\ TurnFails(t) => conversation_history' = conversation_history
       /\ conversation_history' # conversation_history =>
             \E t \in Flows : TurnReturns(t)]_vars

\* C25 witness: one turn has returned normally and a later one has failed;
\* the history holds the one entry
C25_Witness ==
    /\ Len(conversation_history) = 1
    /\ DOMAIN conversation_history[1] = {"user_audio", "ai_text", "ai_audio"}
    /\ flow["primary"].last = "turn" /\ flow["primary"].outcome = "raised"
    /\ ops >= 2

\* continuous_chat has returned or raised
ChatEnded == chat.pc \in {"returned", "raised"}

\* C26: once start_conversation has succeeded, continuous_chat terminates,
\* and it has then called stop_conversation and left no connection open.
C26_ChatTerminates ==
    (chat.pc = "loop") ~>
        (ChatEnded /\ flow["primary"].last = "stop"
            /\ \A s \in SockIds : sock[s] # "open")

\* the most recent min(n, len) messages, as role/content pairs
MostRecent(messages, n) ==
    LET k == IF n < Len(messages) THEN n ELSE Len(messages)
    IN  [j \in 1 .. k |->
            [role |-> messages[Len(messages) - k + j].role,
             content |-> messages[Len(messages) - k + j].content]]

\* C27: get_recent_context(n) returns exactly the most recent
\* min(n, number of messages) messages, in order, as role/content pairs,
\* for every n >= 0; n = 0 yields an empty context.
C27_RecentContext ==
    context.called =>
        context.result = MostRecent(context.messages, context.n)

\* C28: in the text demo loop every non-empty input that is not a command
\* appends the user message and then one assistant message and adds one to
\* turn_count; commands and empty input change neither.
C28_ExchangeCompletes ==
    [][ (demo.pc = "loop" /\ demo'.event = "input" /\ demo' # demo) =>
          LET u == demo'.user_input
              n == Len(demo.messages)
          IN  IF u # << >> /\ u[1] # "/"
              THEN /\ Len(demo'.messages) = n + 2
                   /\ SubSeq(demo'.messages, 1, n) = demo.messages
                   /\ demo'.messages[n + 1].role = "user"
                   /\ demo'.messages[n + 1].content = u
                   /\ demo'.messages[n + 2].role = "assistant"
                   /\ demo'.turn_count = demo.turn_count + 1
              ELSE /\ demo'.messages = demo.messages
                   /\ demo'.turn_count = demo.turn_count ]_vars

====
